---- MODULE Spec2Model ----
(***************************************************************************)
(* Buffered, hour-bucketed event log writer (package log, Impl).           *)
(*                                                                         *)
(* The model follows src/unnamed/part_001 statement by statement.  Every   *)
(* access to logBuffer, currentHour and currentFile happens under im.mu,   *)
(* so the steps of a critical section are separate actions that only the   *)
(* holder of mu can take; what is outside the lock (reading the clock in   *)
(* WriteLog, the channel operations of Close and flushLoop, the WaitGroup) *)
(* interleaves freely.                                                     *)
(*                                                                         *)
(* An hour bucket is the string time.Now().Format("06_01_02__15"); the     *)
(* model numbers the hours 1..MaxHour in clock order (the format is        *)
(* injective on the hours of one century) and writes 0 for the empty       *)
(* string that currentHour holds after New.                                *)
(*                                                                         *)
(* A serialized event is identified by its submitter and the number of     *)
(* the submitter's WriteLog call, <<s, k>>, so that duplicates and         *)
(* reorderings are visible.                                                *)
(* The output directory is empty when the writer is constructed.           *)
(***************************************************************************)
EXTENDS Integers, Sequences, FiniteSets, TLC

\* ---------------------------------------------------------------- bounds
MaxCalls == 3            \* WriteLog calls made in one run, all submitters together
MaxHour == 2             \* hour buckets the wall clock passes through
MaxFaults == 1           \* injected failures in one run: opens, serializations, line writes
MaxCloses == 2           \* Close calls made in one run
MaxCfg == 2              \* largest integer the configuration holds for a key
flushThreshold == 2      \* im.flushThreshold, the configured LOG_FLUSH_THRESHOLD

\* ------------------------------------------------------ program constants
FlushChanCap == 1        \* make(chan struct{}, 1)
DEFAULT_FLUSH_THRESHOLD == 1000
DEFAULT_FLUSH_PERIOD == 5           \* minutes

Submitters == {1, 2}     \* goroutines calling WriteLog
LoopId == -1             \* the flushLoop goroutine, as a holder of mu
Free == 0                \* mu unlocked
Nil == 0                 \* currentFile == nil
Hours == 1..MaxHour
Events == Submitters \X (1..(MaxCalls + 1))
NoCall == [buf |-> <<>>, file |-> Nil, hour |-> 0]   \* pre when no call holds mu

VARIABLES
    now,          \* wall clock, in hours
    currentHour,  \* im.currentHour (0: "")
    currentFile,  \* im.currentFile: Nil or an index into handles
    logBuffer,    \* im.logBuffer
    flushChan,    \* number of signals queued in im.flushChan
    mu,           \* holder of im.mu
    wg,           \* counter of im.wg
    handles,      \* every *os.File returned by os.OpenFile: [hour, open]
    files,        \* the log directory: bucket -> lines of <bucket>.log
    spc,          \* position of each submitter in WriteLog
    shour,        \* the local currentHour of each submitter's call
    scalls,       \* WriteLog calls each submitter has started
    ncalls,       \* WriteLog calls started
    budget,       \* what the run may do: WriteLog calls, injected failures
    lpc,          \* position of flushLoop
    lbranch,      \* the select case flushLoop is serving
    cpc,          \* position of the Close caller
    ncloses,      \* Close calls started
    faults,       \* failures injected so far
    calls,        \* history: the calls in lock order, [ev, sub, hour, ser]
    attempts,     \* history: every WriteString, [ev, file, ok]
    pre,          \* history: buffer, handle and bucket when the last call locked
    overlap,      \* history: some WriteLog call overlapped or followed a Close call
    shutdownLog,  \* history: the steps of the shutdown branch
    closeReturns, \* history: Close calls that have returned
    late,         \* history: the running call of a submitter began after a Close returned
    ctor          \* the call of New: its position, its environment and its locals

vars == <<now, currentHour, currentFile, logBuffer, flushChan, mu, wg, handles,
          files, spc, shour, scalls, ncalls, budget, lpc, lbranch, cpc, ncloses,
          faults, calls, attempts, pre, overlap, shutdownLog, closeReturns, late,
          ctor>>

writer == <<currentHour, currentFile, logBuffer, handles, files, attempts>>
hist == <<calls, pre, overlap, shutdownLog, closeReturns, budget, late, ctor>>

\* ---------------------------------------------------------------- helpers
RECURSIVE KeepIdx(_, _, _)
\* the subsequence of s at the indices i..Len(s) that are in keep
KeepIdx(s, keep, i) ==
    IF i > Len(s) THEN <<>>
    ELSE (IF i \in keep THEN <<s[i]>> ELSE <<>>) \o KeepIdx(s, keep, i + 1)

Range(s) == {s[i] : i \in 1..Len(s)}

OpenHandles == {i \in 1..Len(handles) : handles[i].open}

\* the outcomes the environment may give an operation that can fail
Outcomes == IF faults < budget.faults THEN {TRUE, FALSE} ELSE {TRUE}

\* the sets of failing line writes the environment may give a flush of n lines
FailSets(n) == {F \in SUBSET (1..n) : faults + Cardinality(F) <= budget.faults}

\* a flush that forgets to truncate the buffer
bufferKept(buf) == buf

\* a flush that leaves a single buffered line for later
flushSkipsShort(buf, f) == Len(buf) <= 1 \/ f = Nil

\* a rotation or shutdown that forgets to close the handle
closeSkipped(hs, f) == hs

\* a threshold test that is off by one
thresholdExceeded(buf) == Len(buf) > ctor.thr

\* a blocking-free send on a channel without the capacity check
sendAlways(ch) == ch + 1

\* a Close that does not wait for the WaitGroup
waitSkipped(w) == TRUE

\* a bucket test that rotates on every call
rotateAlways(cur, h) == TRUE

\* what configService.Get can return for a key: an error, or a value of some
\* dynamic type (an int, a number of another type, a string)
CfgInts == (-1)..MaxCfg
CfgResults ==
    {[err |-> TRUE, type |-> "nil", val |-> 0],
     [err |-> FALSE, type |-> "string", val |-> 0]}
    \cup [err : {FALSE}, type : {"int", "int64"}, val : CfgInts]

\* the environment of New: APP_ROOT set or empty, K8S_POD_NAME set or empty,
\* the outcome of os.MkdirAll, what the configuration returns for
\* LOG_FLUSH_THRESHOLD and LOG_FLUSH_PERIOD
NewInputs ==
    [rootSet : BOOLEAN, podSet : BOOLEAN, mkdirOK : BOOLEAN,
     cfgT : CfgResults, cfgP : CfgResults]

\* a getConfigInt that takes every number, whatever its type
getConfigNumber(res, defaultValue) ==
    IF res.err THEN defaultValue
    ELSE IF res.type \in {"int", "int64"} THEN res.val ELSE defaultValue

\* a New that goes on after a failed os.MkdirAll
mkdirIgnored(ok) == FALSE

\* fullDir == "": filepath.Join(ROOT_DIR, subDir) is empty only when both are,
\* and subDir is "logs/<pod>" when K8S_POD_NAME is set
fullDirEmpty(rootSet, podSet) == ~rootSet /\ ~podSet

\* err := os.MkdirAll(fullDir, os.ModePerm); err != nil
mkdirFailed(ok) == ~ok

\* getConfigInt: the default on a lookup error or a value that is not an int
getConfigInt(res, defaultValue) ==
    IF res.err THEN defaultValue
    ELSE IF res.type = "int" THEN res.val ELSE defaultValue

\* make([]string, 0, flushThreshold) panics on a negative capacity
makePanics(cap) == cap < 0

\* time.NewTicker(d) panics on a non-positive duration
tickerPanics(period) == period <= 0

\* a write loop that breaks at the first line whose write fails
writeLogStops(buf, h, fails) ==
    LET last == IF \E i \in 1..Len(buf) : ~h.open \/ i \in fails
                THEN CHOOSE i \in 1..Len(buf) :
                        /\ ~h.open \/ i \in fails
                        /\ \A j \in 1..(i - 1) : h.open /\ j \notin fails
                ELSE Len(buf)
    IN  [i \in 1..last |-> [ev |-> buf[i], file |-> h.hour, ok |-> h.open /\ i \notin fails]]

\* a flush that goes into its write loop with an empty buffer
flushSkipsNilOnly(buf, f) == f = Nil

\* a json.Marshal whose error is not seen
marshalNoError(e, ok) == [err |-> FALSE, json |-> e]

\* eventJSON, err := json.Marshal(&requestEvent): the line of the event, or an
\* error when the event cannot be serialized
marshal(e, ok) == [err |-> ~ok, json |-> e]

\* a select without its done case
doneNever(c) == FALSE

\* case <-im.done is ready: a Close caller is blocked in its send on the
\* unbuffered channel
doneReady(c) == c = "send"

\* a Lock that does not wait for the holder
lockAlways(m) == TRUE

\* im.mu.Lock() returns: the mutex is free
canLock(m) == m = Free

\* a rotation that records the new bucket before its open has succeeded
hourRecordedAnyway(cur, h, ok) == h

\* im.currentHour after os.OpenFile: the call's bucket when the open succeeded
\* (line 110), unchanged when it failed (the return of line 106)
hourAfterOpen(cur, h, ok) == IF ok THEN h ELSE cur

\* len(im.logBuffer) == 0 || im.currentFile == nil
flushSkips(buf, f) == Len(buf) = 0 \/ f = Nil

\* im.logBuffer = im.logBuffer[:0]
bufferAfterFlush(buf) == <<>>

\* im.currentHour != currentHour
needRotate(cur, h) == cur # h

\* if im.currentFile != nil { im.currentFile.Close() }
closeCurrent(hs, f) ==
    IF f = Nil THEN hs ELSE [hs EXCEPT ![f].open = FALSE]

\* len(im.logBuffer) >= im.flushThreshold
thresholdReached(buf) == Len(buf) >= ctor.thr

\* select { case im.flushChan <- struct{}{}: default: }
trySend(ch) == IF ch < FlushChanCap THEN ch + 1 ELSE ch

\* im.wg.Wait() returns
waitReturns(w) == w = 0

\* the lines the for loop of flush gets into the file: one WriteString per
\* buffered line, in order; a write on a closed handle fails, and so do the
\* writes the environment fails (fails: their indices)
goodWrites(buf, h, fails) == {i \in 1..Len(buf) : h.open /\ i \notin fails}

linesWritten(buf, h, fails) == KeepIdx(buf, goodWrites(buf, h, fails), 1)

writeLog(buf, h, fails) ==
    [i \in 1..Len(buf) |->
        [ev |-> buf[i], file |-> h.hour, ok |-> i \in goodWrites(buf, h, fails)]]

\* ------------------------------------------------------------------- Init
\* The state when New returns: the Impl is built and flushLoop is spawned but
\* has not run yet.
InitWriter ==
    /\ now = 1
    /\ currentHour = 0
    /\ currentFile = Nil
    /\ logBuffer = <<>>
    /\ flushChan = 0
    /\ mu = Free
    /\ wg = 0
    /\ handles = <<>>
    /\ files = <<>>
    /\ spc = [s \in Submitters |-> "idle"]
    /\ shour = [s \in Submitters |-> 0]
    /\ scalls = [s \in Submitters |-> 0]
    /\ ncalls = 0
    /\ lpc = "start"
    /\ lbranch = "none"
    /\ cpc = "idle"
    /\ ncloses = 0
    /\ faults = 0
    /\ calls = <<>>
    /\ attempts = <<>>
    /\ pre = NoCall
    /\ overlap = FALSE
    /\ shutdownLog = <<>>
    /\ closeReturns = 0
    /\ late = [s \in Submitters |-> FALSE]

\* New has returned a writer whose threshold the configuration set and whose
\* period is the default
Built ==
    [pc |-> "returned", spawned |-> TRUE,
     in |-> [rootSet |-> TRUE, podSet |-> FALSE, mkdirOK |-> TRUE,
             cfgT |-> [err |-> FALSE, type |-> "int", val |-> flushThreshold],
             cfgP |-> [err |-> TRUE, type |-> "nil", val |-> 0]],
     thr |-> flushThreshold, per |-> DEFAULT_FLUSH_PERIOD]

Init ==
    /\ InitWriter
    /\ budget = [calls |-> MaxCalls, faults |-> MaxFaults]
    /\ ctor = Built

\* the same writer in a run one call longer
InitDeep ==
    /\ InitWriter
    /\ budget = [calls |-> MaxCalls + 1, faults |-> MaxFaults]
    /\ ctor = Built

\* a writer configured with a flush threshold of one line, in a run one call
\* and one failure longer
InitLow ==
    /\ InitWriter
    /\ budget = [calls |-> MaxCalls + 1, faults |-> MaxFaults + 1]
    /\ ctor = [Built EXCEPT !.thr = 1, !.in.cfgT.val = 1]

\* New is called in some environment
InitNew ==
    /\ InitWriter
    /\ budget = [calls |-> 0, faults |-> 0]
    /\ ctor \in [pc : {"call"}, spawned : {FALSE}, in : NewInputs, thr : {0}, per : {0}]

\* ------------------------------------------------------------------- New
mainVars == <<now, currentHour, currentFile, logBuffer, flushChan, mu, wg, handles,
              files, spc, shour, scalls, ncalls, budget, lpc, lbranch, cpc,
              ncloses, faults, calls, attempts, pre, overlap, shutdownLog,
              closeReturns, late>>

\* the directory: return nil when fullDir is empty or os.MkdirAll fails
New_Dir ==
    /\ ctor.pc = "call"
    /\ ctor' = [ctor EXCEPT !.pc =
                   IF fullDirEmpty(ctor.in.rootSet, ctor.in.podSet) THEN "nil"
                   ELSE IF mkdirFailed(ctor.in.mkdirOK) THEN "nil"
                   ELSE "config"]
    /\ UNCHANGED mainVars

\* flushThreshold and flushPeriod from the configuration
New_Config ==
    /\ ctor.pc = "config"
    /\ ctor' = [ctor EXCEPT !.pc = "make",
                            !.thr = getConfigInt(ctor.in.cfgT, DEFAULT_FLUSH_THRESHOLD),
                            !.per = getConfigInt(ctor.in.cfgP, DEFAULT_FLUSH_PERIOD)]
    /\ UNCHANGED mainVars

\* im := &Impl{...}; go im.flushLoop(); return im
New_Make ==
    /\ ctor.pc = "make"
    /\ ctor' = IF makePanics(ctor.thr) THEN [ctor EXCEPT !.pc = "panicked"]
               ELSE [ctor EXCEPT !.pc = "returned", !.spawned = TRUE]
    /\ UNCHANGED mainVars

\* the event of submitter s's running call
sev(s) == <<s, scalls[s]>>

\* ------------------------------------------------------------ wall clock
AdvanceClock ==
    /\ now < MaxHour
    /\ now' = now + 1
    /\ UNCHANGED <<writer, flushChan, mu, wg, spc, shour, scalls, ncalls, lpc,
                   lbranch, cpc, ncloses, faults, hist>>

\* --------------------------------------------------------------- WriteLog
\* currentHour := time.Now().Format("06_01_02__15"), before the lock is taken
WL_Now(s) ==
    /\ spc[s] = "idle"
    /\ ncalls < budget.calls
    /\ ncalls' = ncalls + 1
    /\ scalls' = [scalls EXCEPT ![s] = @ + 1]
    /\ shour' = [shour EXCEPT ![s] = now]
    /\ spc' = [spc EXCEPT ![s] = "lock"]
    /\ overlap' = (overlap \/ ncloses > 0)
    /\ late' = [late EXCEPT ![s] = closeReturns > 0]
    /\ UNCHANGED <<now, writer, flushChan, mu, wg, lpc, lbranch, cpc, ncloses,
                   faults, calls, pre, shutdownLog, closeReturns, budget, ctor>>

\* im.mu.Lock(); if im.currentHour != currentHour
WL_Lock(s) ==
    /\ spc[s] = "lock"
    /\ canLock(mu)
    /\ mu' = s
    /\ calls' = Append(calls, [ev |-> sev(s), hour |-> shour[s], ser |-> "none"])
    /\ pre' = [buf |-> logBuffer, file |-> currentFile, hour |-> currentHour]
    /\ spc' = [spc EXCEPT ![s] =
                  IF needRotate(currentHour, shour[s]) THEN "rotate" ELSE "append"]
    /\ UNCHANGED <<now, writer, flushChan, wg, shour, scalls, ncalls, lpc, lbranch,
                   cpc, ncloses, faults, overlap, shutdownLog, closeReturns, budget, late, ctor>>

\* the rotation: im.flush(), close the old handle, os.OpenFile(<bucket>.log,
\* O_APPEND|O_CREATE|O_WRONLY); a failed open returns (and unlocks)
WL_Rotate(s) ==
    /\ spc[s] = "rotate"
    /\ mu = s
    /\ \E fails \in (IF flushSkips(logBuffer, currentFile) THEN {{}}
                     ELSE FailSets(Len(logBuffer))) :
       \E ok \in (IF faults + Cardinality(fails) < budget.faults THEN {TRUE, FALSE}
                  ELSE {TRUE}) :
         LET skip == flushSkips(logBuffer, currentFile)
             h == handles[currentFile]
             flushed == IF skip THEN files
                        ELSE [files EXCEPT ![h.hour] = @ \o linesWritten(logBuffer, h, fails)]
         IN  /\ attempts' = IF skip THEN attempts
                            ELSE attempts \o writeLog(logBuffer, h, fails)
             /\ logBuffer' = IF skip THEN logBuffer ELSE bufferAfterFlush(logBuffer)
             /\ faults' = faults + Cardinality(fails) + (IF ok THEN 0 ELSE 1)
             /\ IF ok
                THEN /\ handles' = Append(closeCurrent(handles, currentFile),
                                          [hour |-> shour[s], open |-> TRUE])
                     /\ files' = IF shour[s] \in DOMAIN flushed THEN flushed
                                 ELSE flushed @@ (shour[s] :> <<>>)
                     /\ currentFile' = Len(handles) + 1
                     /\ currentHour' = hourAfterOpen(currentHour, shour[s], ok)
                     /\ spc' = [spc EXCEPT ![s] = "append"]
                     /\ UNCHANGED <<shour, mu, pre, late>>
                ELSE /\ handles' = closeCurrent(handles, currentFile)
                     /\ files' = flushed
                     /\ currentFile' = Nil
                     /\ spc' = [spc EXCEPT ![s] = "idle"]
                     /\ shour' = [shour EXCEPT ![s] = 0]
                     /\ mu' = Free
                     /\ pre' = NoCall
                     /\ late' = [late EXCEPT ![s] = FALSE]
                     /\ currentHour' = hourAfterOpen(currentHour, shour[s], ok)
    /\ UNCHANGED <<now, flushChan, wg, scalls, ncalls, lpc, lbranch, cpc,
                   ncloses, calls, overlap, shutdownLog, closeReturns, budget, ctor>>

\* json.Marshal, append, the non-blocking threshold signal, and the return
\* (with its deferred unlock)
WL_Append(s) ==
    /\ spc[s] = "append"
    /\ mu = s
    /\ \E ok \in Outcomes :
         LET m == marshal(sev(s), ok)
         IN  /\ calls' = [calls EXCEPT ![Len(calls)].ser = IF ok THEN "ok" ELSE "fail"]
             /\ faults' = IF ok THEN faults ELSE faults + 1
             /\ IF ~m.err
                THEN /\ logBuffer' = Append(logBuffer, m.json)
                     /\ flushChan' = IF thresholdReached(logBuffer')
                                     THEN trySend(flushChan) ELSE flushChan
                ELSE UNCHANGED <<logBuffer, flushChan>>
    /\ mu' = Free
    /\ spc' = [spc EXCEPT ![s] = "idle"]
    /\ shour' = [shour EXCEPT ![s] = 0]
    /\ pre' = NoCall
    /\ late' = [late EXCEPT ![s] = FALSE]
    /\ UNCHANGED <<now, currentHour, currentFile, handles, files, attempts, wg,
                   scalls, ncalls, lpc, lbranch, cpc, ncloses, overlap,
                   shutdownLog, closeReturns, budget, ctor>>

\* -------------------------------------------------------------- flushLoop
\* im.wg.Add(1); the ticker is created (time.NewTicker panics on a period that
\* is not positive, and the panic ends the process)
FL_Start ==
    /\ lpc = "start"
    /\ ctor.spawned
    /\ IF tickerPanics(ctor.per)
       THEN lpc' = "panicked" /\ wg' = wg     \* the deferred wg.Done() runs
       ELSE lpc' = "select" /\ wg' = wg + 1
    /\ UNCHANGED <<now, writer, flushChan, mu, spc, shour, scalls, ncalls, lbranch,
                   cpc, ncloses, faults, hist>>

\* case <-im.flushChan
FL_RecvFlush ==
    /\ lpc = "select"
    /\ flushChan > 0
    /\ flushChan' = flushChan - 1
    /\ lbranch' = "signal"
    /\ lpc' = "lock"
    /\ UNCHANGED <<now, writer, mu, wg, spc, shour, scalls, ncalls, cpc, ncloses,
                   faults, hist>>

\* case <-ticker.C
FL_RecvTick ==
    /\ lpc = "select"
    /\ lbranch' = "tick"
    /\ lpc' = "lock"
    /\ UNCHANGED <<now, writer, flushChan, mu, wg, spc, shour, scalls, ncalls, cpc,
                   ncloses, faults, hist>>

\* case <-im.done: the rendezvous with the send of the Close caller
FL_RecvDone ==
    /\ lpc = "select"
    /\ doneReady(cpc)
    /\ cpc' = "wait"
    /\ lbranch' = "done"
    /\ lpc' = "lock"
    /\ shutdownLog' = Append(shutdownLog, "received")
    /\ UNCHANGED <<now, writer, flushChan, mu, wg, spc, shour, scalls, ncalls,
                   ncloses, faults, calls, pre, overlap, closeReturns, budget, late, ctor>>

\* im.mu.Lock() and im.flush() up to its write loop.  When flush returns early
\* in the signal and tick cases the step runs on to im.mu.Unlock().
FL_LockFlush ==
    /\ lpc = "lock"
    /\ canLock(mu)
    /\ IF flushSkips(logBuffer, currentFile)
       THEN /\ lpc' = IF lbranch = "done" THEN "flushed" ELSE "select"
            /\ mu' = IF lbranch = "done" THEN LoopId ELSE Free
            /\ lbranch' = IF lbranch = "done" THEN lbranch ELSE "none"
            /\ UNCHANGED <<files, attempts, faults>>
       ELSE /\ \E fails \in FailSets(Len(logBuffer)) :
                 LET h == handles[currentFile]
                 IN  /\ files' = [files EXCEPT ![h.hour] =
                                     @ \o linesWritten(logBuffer, h, fails)]
                     /\ attempts' = attempts \o writeLog(logBuffer, h, fails)
                     /\ faults' = faults + Cardinality(fails)
            /\ lpc' = "truncate"
            /\ mu' = LoopId
            /\ UNCHANGED lbranch
    /\ UNCHANGED <<now, currentHour, currentFile, logBuffer, handles, flushChan,
                   wg, spc, shour, scalls, ncalls, cpc, ncloses, hist>>

\* im.logBuffer = im.logBuffer[:0], and im.mu.Unlock() in the signal and tick cases
FL_Truncate ==
    /\ lpc = "truncate"
    /\ mu = LoopId
    /\ logBuffer' = bufferAfterFlush(logBuffer)
    /\ lpc' = IF lbranch = "done" THEN "flushed" ELSE "select"
    /\ mu' = IF lbranch = "done" THEN LoopId ELSE Free
    /\ lbranch' = IF lbranch = "done" THEN lbranch ELSE "none"
    /\ UNCHANGED <<now, currentHour, currentFile, handles, files, attempts,
                   flushChan, wg, spc, shour, scalls, ncalls, cpc,
                   ncloses, faults, hist>>

\* the done case after its flush: close the handle, unlock, return
FL_Shutdown ==
    /\ lpc = "flushed"
    /\ lbranch = "done"
    /\ mu = LoopId
    /\ handles' = closeCurrent(handles, currentFile)
    /\ mu' = Free
    /\ lpc' = "return"
    /\ shutdownLog' = shutdownLog \o
           <<"flushed",
             IF {i \in 1..Len(handles') : handles'[i].open} = {} THEN "closed"
             ELSE "leftOpen">>
    /\ UNCHANGED <<now, currentHour, currentFile, logBuffer, files, attempts,
                   flushChan, wg, spc, shour, scalls, ncalls, lbranch, cpc, ncloses,
                   faults, calls, pre, overlap, closeReturns, budget, late, ctor>>

\* the deferred ticker.Stop() and im.wg.Done()
FL_Return ==
    /\ lpc = "return"
    /\ wg' = wg - 1
    /\ lpc' = "exited"
    /\ shutdownLog' = Append(shutdownLog, "exited")
    /\ UNCHANGED <<now, writer, flushChan, mu, spc, shour, scalls, ncalls, lbranch,
                   cpc, ncloses, faults, calls, pre, overlap, closeReturns, budget, late, ctor>>

\* ------------------------------------------------------------------ Close
\* Close is called: the caller blocks in im.done <- struct{}{}
CL_Call ==
    /\ cpc = "idle"
    /\ ncloses < MaxCloses
    /\ ncloses' = ncloses + 1
    /\ cpc' = "send"
    /\ overlap' = (overlap \/ \E s \in Submitters : spc[s] # "idle")
    /\ UNCHANGED <<now, writer, flushChan, mu, wg, spc, shour, scalls, ncalls, lpc,
                   lbranch, faults, calls, pre, shutdownLog, closeReturns, budget, late, ctor>>

\* im.wg.Wait() returns and so does Close
CL_Return ==
    /\ cpc = "wait"
    /\ waitReturns(wg)
    /\ cpc' = "idle"
    /\ closeReturns' = closeReturns + 1
    /\ UNCHANGED <<now, writer, flushChan, mu, wg, spc, shour, scalls, ncalls, lpc,
                   lbranch, ncloses, faults, calls, pre, overlap, shutdownLog, budget, late, ctor>>

\* ------------------------------------------------------------------- Next
Next ==
    \/ AdvanceClock
    \/ \E s \in Submitters : WL_Now(s)
    \/ \E s \in Submitters : WL_Lock(s)
    \/ \E s \in Submitters : WL_Rotate(s)
    \/ \E s \in Submitters : WL_Append(s)
    \/ FL_Start
    \/ FL_RecvFlush
    \/ FL_RecvTick
    \/ FL_RecvDone
    \/ FL_LockFlush
    \/ FL_Truncate
    \/ FL_Shutdown
    \/ FL_Return
    \/ CL_Call
    \/ CL_Return

Spec == Init /\ [][Next]_vars

SpecDeep == InitDeep /\ [][Next]_vars

SpecLow == InitLow /\ [][Next]_vars

\* the construction of a writer in every environment, up to the first step of
\* its background task
NextNew ==
    \/ New_Dir
    \/ New_Config
    \/ New_Make
    \/ FL_Start

SpecNew == InitNew /\ [][NextNew]_vars

\* The writer while the periodic timer does not fire, under fair scheduling: a
\* goroutine that can run does run (the steps of flushLoop, and of a WriteLog
\* call that holds the lock), and im.mu.Lock() in flushLoop succeeds when the
\* lock is free again and again (sync.Mutex hands the lock to a starving waiter).
NextNoTick ==
    \/ AdvanceClock
    \/ \E s \in Submitters : WL_Now(s)
    \/ \E s \in Submitters : WL_Lock(s)
    \/ \E s \in Submitters : WL_Rotate(s)
    \/ \E s \in Submitters : WL_Append(s)
    \/ FL_Start
    \/ FL_RecvFlush
    \/ FL_RecvDone
    \/ FL_LockFlush
    \/ FL_Truncate
    \/ FL_Shutdown
    \/ FL_Return
    \/ CL_Call
    \/ CL_Return

Fairness ==
    /\ WF_vars(FL_Start)
    /\ WF_vars(FL_RecvFlush)
    /\ WF_vars(FL_RecvDone)
    /\ SF_vars(FL_LockFlush)
    /\ WF_vars(FL_Truncate)
    /\ WF_vars(FL_Shutdown)
    /\ WF_vars(FL_Return)
    /\ \A s \in Submitters : WF_vars(WL_Rotate(s)) /\ WF_vars(WL_Append(s))

SpecNoTick == Init /\ [][NextNoTick]_vars /\ Fairness

TypeOK ==
    /\ now \in Hours
    /\ currentHour \in 0..MaxHour
    /\ currentFile \in 0..Len(handles)
    /\ flushChan \in 0..FlushChanCap
    /\ mu \in {Free, LoopId} \cup Submitters
    /\ wg \in 0..1
    /\ faults \in 0..budget.faults
    /\ DOMAIN files \subseteq Hours
\* ================================================================ claims
\* the events of a sequence of call or write records
EvSeq(recs) == [i \in 1..Len(recs) |-> recs[i].ev]

\* the events appended to the buffer (json.Marshal succeeded), in lock order
Appended == EvSeq(SelectSeq(calls, LAMBDA c : c.ser = "ok"))

\* the lines of a bucket's file (none when the file does not exist)
FileOf(h) == IF h \in DOMAIN files THEN files[h] ELSE <<>>

\* over a log of writes att and a directory fs: the events written, the events
\* whose write failed, the number of writes of e, the number of lines of e
AttemptedIn(att) == {att[i].ev : i \in 1..Len(att)}
WriteFailedIn(att) == {att[i].ev : i \in {j \in 1..Len(att) : ~att[j].ok}}
AttemptsIn(att, e) == Cardinality({i \in 1..Len(att) : att[i].ev = e})
LinesIn(fs, e) ==
    LET occ(h) == Cardinality({i \in 1..Len(fs[h]) : fs[h][i] = e})
        RECURSIVE Sum(_)
        Sum(S) == IF S = {} THEN 0
                  ELSE LET h == CHOOSE x \in S : TRUE IN occ(h) + Sum(S \ {h})
    IN  Sum(DOMAIN fs)

Attempted == AttemptedIn(attempts)
WriteFailed == WriteFailedIn(attempts)
AttemptsOf(e) == AttemptsIn(attempts, e)
LinesOf(e) == LinesIn(files, e)

\* every call so far computed bucket h
OneBucket(h) == \A i \in 1..Len(calls) : calls[i].hour = h

\* a Close call has returned, and every WriteLog call returned before Close was called
ClosedAfterCalls == closeReturns > 0 /\ ~overlap

\* ---------------------------------------------------------------------- C1
\* C1 as stated: when all WriteLog calls fall in one hour bucket and returned
\* before Close was called, then after Close returns the bucket's file holds
\* exactly one line per event whose serialization succeeded, in submission
\* (lock) order, and no other file holds anything.
C1_Original ==
    \A h \in Hours :
        (ClosedAfterCalls /\ OneBucket(h)) =>
            /\ FileOf(h) = Appended
            /\ \A g \in DOMAIN files \ {h} : files[g] = <<>>

\* C1 amended: ... the bucket's file holds exactly one line per event whose
\* serialization succeeded and whose line write did not fail, in submission
\* order, and nothing else.
C1_FileAfterClose ==
    \A h \in Hours :
        (ClosedAfterCalls /\ OneBucket(h)) =>
            /\ FileOf(h) = SelectSeq(Appended, LAMBDA e : e \notin WriteFailed)
            /\ \A g \in DOMAIN files \ {h} : files[g] = <<>>

\* three calls in one bucket, two lines in the file and one line lost to a
\* failed write, after Close
C1_Witness ==
    /\ ClosedAfterCalls /\ OneBucket(1)
    /\ Len(Appended) = 3 /\ Len(FileOf(1)) = 2 /\ WriteFailed # {}

\* ---------------------------------------------------------------------- C2
\* C2: no event is written to a file more than once, no event leaves the buffer
\* without a write attempt, a flush writes exactly the lines in the buffer and
\* then empties it, and a line appended by a concurrent submission is never
\* removed by a flush (it is in the buffer until it has had its write).
C2_FlushExactlyOnce ==
    /\ \A i, j \in 1..Len(attempts) : attempts[i].ev = attempts[j].ev => i = j
    /\ \A g, h \in DOMAIN files : \A i \in 1..Len(files[g]) : \A j \in 1..Len(files[h]) :
           files[g][i] = files[h][j] => g = h /\ i = j
    /\ \A i \in 1..Len(Appended) :
           Appended[i] \in Range(logBuffer) \/ Appended[i] \in Attempted
    /\ lpc # "truncate" => Range(logBuffer) \cap Attempted = {}
    /\ lpc = "truncate" =>
           /\ Len(attempts) >= Len(logBuffer)
           /\ logBuffer = SubSeq(EvSeq(attempts),
                                 Len(attempts) - Len(logBuffer) + 1, Len(attempts))

\* the flush task has written the buffer and not yet truncated it while a
\* submitter waits for the lock with its event
C2_Witness ==
    /\ lpc = "truncate" /\ Len(logBuffer) >= 2
    /\ \E s \in Submitters : spc[s] = "lock"

\* ---------------------------------------------------------------------- C3
\* C3 as stated: whenever the lock is free and no write has failed, the lines
\* of the current bucket's file followed by the buffer are exactly the
\* successfully serialized events of that bucket, each once, in lock order.
C3_Original ==
    (mu = Free /\ WriteFailed = {} /\ currentHour \in Hours) =>
        FileOf(currentHour) \o logBuffer =
            EvSeq(SelectSeq(calls, LAMBDA c : c.ser = "ok" /\ c.hour = currentHour))

\* ---------------------------------------------------------------------- C4
\* C4: Close returns only after the background task has received the shutdown
\* signal, done its final flush, closed the handle if one was open, and
\* terminated.
C4_CloseWaitsForLoop ==
    closeReturns > 0 =>
        /\ lpc = "exited"
        /\ wg = 0
        /\ shutdownLog = <<"received", "flushed", "closed", "exited">>

\* Close has returned after calls that left a handle open and lines in a file
C4_Witness ==
    /\ closeReturns > 0
    /\ Len(handles) > 0
    /\ \E h \in DOMAIN files : files[h] # <<>>

\* ---------------------------------------------------------------------- C5
\* C5 as stated: after Close returns (all WriteLog calls having returned
\* before), the buffer is empty and every event that was appended to the buffer
\* is in a file.
C5_Original ==
    ClosedAfterCalls =>
        /\ logBuffer = <<>>
        /\ \A i \in 1..Len(Appended) : LinesOf(Appended[i]) >= 1

\* C5 amended: after Close returns, every event that was appended to the buffer
\* has had exactly one write attempt and is in a file, once, unless that write
\* failed; the buffer is empty, except that when no handle is set the buffer
\* keeps the lines appended while no handle was set, unwritten.
C5_DrainedAfterClose ==
    ClosedAfterCalls =>
        /\ \A i \in 1..Len(Appended) :
             LET e == Appended[i]
             IN  IF e \in Range(logBuffer)
                 THEN AttemptsOf(e) = 0 /\ LinesOf(e) = 0
                 ELSE AttemptsOf(e) = 1 /\ LinesOf(e) = (IF e \in WriteFailed THEN 0 ELSE 1)
        /\ logBuffer # <<>> => currentFile = Nil

\* after Close, two events were flushed and one of them lost to a failed write
C5_Witness ==
    /\ ClosedAfterCalls
    /\ logBuffer = <<>>
    /\ Len(Appended) >= 2 /\ WriteFailed # {}
    /\ \E e \in Attempted : LinesOf(e) = 1

\* ---------------------------------------------------------------------- C6
\* the running call of s rotated (its bucket differed, and its open succeeded)
\* and is about to return
RotatedCallReturns(s) ==
    /\ spc[s] = "append" /\ spc'[s] = "idle"
    /\ needRotate(pre.hour, shour[s])

\* what the call leaves about the old handle and the new bucket: (2) the old
\* handle is closed, (3) the new bucket's file exists and is the open handle,
\* and the recorded bucket is the new bucket
RotationPost(s) ==
    /\ pre.file # Nil => ~handles'[pre.file].open
    /\ shour[s] \in DOMAIN files'
    /\ currentFile' # Nil
    /\ handles'[currentFile'].open /\ handles'[currentFile'].hour = shour[s]
    /\ currentHour' = shour[s]

\* C6 as stated: a WriteLog call whose bucket differs from the recorded one and
\* whose open succeeds leaves (1) every line that was in the buffer before the
\* call written to the old bucket's file, and (2), (3) as above.
C6_Original ==
    [][\A s \in Submitters :
          RotatedCallReturns(s) =>
              /\ \A i \in 1..Len(pre.buf) :
                     /\ pre.hour \in DOMAIN files'
                     /\ pre.buf[i] \in Range(files'[pre.hour])
              /\ RotationPost(s)]_vars

\* C6 amended: (1) when a handle was set before the call, every line that was
\* in the buffer before the call has had exactly one write attempt, on the old
\* bucket's file, and is in that file unless the write failed; when no handle
\* was set, those lines are still in the buffer, ahead of the call's event.
\* (2) and (3) as stated.
C6_Rotation ==
    [][\A s \in Submitters :
          RotatedCallReturns(s) =>
              /\ IF pre.file # Nil
                 THEN \A i \in 1..Len(pre.buf) :
                        /\ pre.buf[i] \notin Range(logBuffer')
                        /\ AttemptsIn(attempts', pre.buf[i]) = 1
                        /\ \E j \in 1..Len(attempts') :
                              /\ attempts'[j].ev = pre.buf[i]
                              /\ attempts'[j].file = pre.hour
                        /\ LinesIn(files', pre.buf[i]) =
                              (IF pre.buf[i] \in WriteFailedIn(attempts') THEN 0 ELSE 1)
                        /\ pre.buf[i] \notin WriteFailedIn(attempts') =>
                              pre.buf[i] \in Range(files'[pre.hour])
                 ELSE SubSeq(logBuffer', 1, Len(pre.buf)) = pre.buf
              /\ RotationPost(s)]_vars

\* a call that rotated with lines in the buffer and an open old handle, about
\* to return
C6_Witness ==
    \E s \in Submitters :
        /\ spc[s] = "append"
        /\ needRotate(pre.hour, shour[s])
        /\ pre.buf # <<>> /\ pre.file # Nil
        /\ pre.buf[1] \in Range(FileOf(pre.hour))

\* ---------------------------------------------------------------------- C7
\* the bucket computed by the call that submitted event e
HourOf(e) == calls[CHOOSE i \in 1..Len(calls) : calls[i].ev = e].hour

\* C7 as stated: every line in a bucket's file was submitted by a WriteLog call
\* whose computed bucket is that file's bucket.
C7_Original ==
    \A h \in DOMAIN files :
        \A i \in 1..Len(files[h]) : HourOf(files[h][i]) = h

\* ---------------------------------------------------------------------- C8
\* C8: at most one file handle is open, and a new handle is opened only after
\* the previous one was closed (handles are numbered in the order they were
\* opened: only the newest can be open, and it is im.currentFile).
C8_OneHandle ==
    /\ Cardinality(OpenHandles) <= 1
    /\ \A i \in 1..Len(handles) : handles[i].open => i = Len(handles) /\ i = currentFile

\* a second handle is open after a rotation closed the first
C8_Witness ==
    /\ Len(handles) >= 2
    /\ handles[Len(handles)].open
    /\ handles[1].hour # handles[Len(handles)].hour

\* ---------------------------------------------------------------------- C9
\* event e is in a buffer that has reached the threshold while a handle is open
\* and the background task has not shut down
AtThreshold(e) ==
    /\ e \in Range(logBuffer)
    /\ Len(logBuffer) >= flushThreshold
    /\ currentFile # Nil /\ handles[currentFile].open
    /\ lpc \notin {"return", "exited"}

C10_SignalNeverBlocks ==
    /\ flushChan <= FlushChanCap
    /\ \A s \in Submitters : (spc[s] = "append" /\ mu = s) => ENABLED WL_Append(s)

\* a signal was dropped: flushLoop has not run yet, one request is pending, and
\* the buffer has grown past the threshold since
C10_Witness ==
    /\ lpc = "start"
    /\ flushChan = FlushChanCap
    /\ Len(logBuffer) > flushThreshold

\* --------------------------------------------------------------------- C11
\* no os.OpenFile has failed in a call that has returned
NoOpenFailed ==
    \A i \in 1..Len(calls) :
        calls[i].ser = "none" => \E s \in Submitters : spc[s] # "idle" /\ sev(s) = calls[i].ev

\* the successfully serialized events that are in no file
Missing == {e \in Range(Appended) : LinesOf(e) = 0}

\* every line of every file is the whole line of one successfully serialized
\* event, and no event has two lines
LinesComplete ==
    /\ \A h \in DOMAIN files : Range(files[h]) \subseteq Range(Appended)
    /\ \A e \in Range(Appended) : LinesOf(e) <= 1

FairClose ==
    /\ Fairness
    /\ SF_vars(FL_RecvDone)
    /\ WF_vars(CL_Return)

SpecFair == Init /\ [][Next]_vars /\ FairClose

\* C12 as stated: every call to Close eventually returns, a second call made
\* after the first has returned included (the n-th call made is followed by the
\* n-th return).
C12_Original ==
    \A n \in 1..MaxCloses : (ncloses >= n) ~> (closeReturns >= n)

\* the first call to Close does return
C12_FirstCloseReturns == (ncloses >= 1) ~> (closeReturns >= 1)

\* --------------------------------------------------------------------- C13
\* C13 as stated: a WriteLog call made after Close has returned leaves the
\* buffer, the recorded bucket, the output handle and every file unchanged (no
\* step of such a call changes them).
C13_Original ==
    [][\A s \in Submitters :
          (late[s] /\ spc'[s] # spc[s]) =>
              UNCHANGED <<logBuffer, currentHour, currentFile, handles, files>>]_vars

\* --------------------------------------------------------------------- C14
\* what file I/O changes: the directory, the handles, the log of line writes
io == <<files, handles, attempts>>

\* C14 as stated: every file write, open and close, those of a rotation
\* included, is a step of the background task; no step of a WriteLog call does
\* file I/O.
C14_Original == [][io' # io => lpc' # lpc]_vars

\* C14 amended: a WriteLog call does file I/O on the caller's thread exactly in
\* its rotation, when it holds the lock and its bucket differs from the recorded
\* one (the flush of the old buffer, the close of the old handle, the open of
\* the new file); a call that sees no bucket change, and the rest of a rotating
\* call, do none; every other file write and close is a step of the background
\* task.
C14_CallerRotates ==
    [][/\ io' # io =>
            \/ lpc' # lpc
            \/ \E s \in Submitters :
                  /\ spc[s] = "rotate" /\ spc'[s] # "rotate"
                  /\ mu = s
                  /\ currentHour # shour[s]
       /\ \A s \in Submitters :
            (spc'[s] # spc[s] /\ spc[s] # "rotate") => io' = io]_vars

\* a call has just flushed the old bucket's lines, closed its handle and opened
\* the new bucket's file while the background task sits in its select
C14_Witness ==
    \E s \in Submitters :
        /\ spc[s] = "append" /\ mu = s
        /\ lpc = "select"
        /\ pre.hour # shour[s] /\ pre.file # Nil /\ pre.buf # <<>>
        /\ ~handles[pre.file].open
        /\ currentFile = Len(handles) /\ handles[currentFile].hour = shour[s]
        /\ Range(pre.buf) \subseteq Attempted

\* --------------------------------------------------------------------- C15
\* C15 as stated: whatever integers the configuration gives for the threshold
\* and the period, and whatever fails, neither New nor the background task
\* panics.
C15_Original == ctor.pc # "panicked" /\ lpc # "panicked"

\* --------------------------------------------------------------------- C16
\* C16: when the directory path is empty or creating the directory fails, New
\* returns nil without reading the configuration and starts no background
\* task: no buffer, handle or scheduler exists afterwards.
C16_NoWriterOnDirFailure ==
    (ctor.pc # "call" /\
     ((~ctor.in.rootSet /\ ~ctor.in.podSet) \/ ~ctor.in.mkdirOK)) =>
        /\ ctor.pc = "nil"
        /\ ~ctor.spawned
        /\ lpc = "start" /\ wg = 0
        /\ ctor.thr = 0 /\ ctor.per = 0
        /\ logBuffer = <<>> /\ currentFile = Nil /\ handles = <<>>

\* New has returned nil because os.MkdirAll failed on a directory path that was
\* not empty
C16_Witness ==
    /\ ctor.pc = "nil"
    /\ ctor.in.rootSet /\ ~ctor.in.mkdirOK

\* --------------------------------------------------------------------- C17
\* what the claim gives for a key: the configured value exactly when the lookup
\* succeeded with an int, the default otherwise
Configured(res, defaultValue) ==
    IF ~res.err /\ res.type = "int" THEN res.val ELSE defaultValue

\* C17: once New has read the configuration, the flush threshold and the flush
\* period are the values the configuration returned exactly when the lookup
\* succeeded with an int, and 1000 and 5 otherwise.
C17_ConfigDefaults ==
    ctor.pc \in {"make", "returned", "panicked"} =>
        /\ ctor.thr = Configured(ctor.in.cfgT, 1000)
        /\ ctor.per = Configured(ctor.in.cfgP, 5)

\* New has returned a writer whose threshold is the default because the
\* configured number was not an int, and whose period is a configured int
C17_Witness ==
    /\ ctor.pc = "returned"
    /\ ~ctor.in.cfgT.err /\ ctor.in.cfgT.type = "int64" /\ ctor.in.cfgT.val = 2
    /\ ctor.thr = 1000
    /\ ctor.in.cfgP.type = "int" /\ ctor.per = ctor.in.cfgP.val /\ ctor.per = 1

\* --------------------------------------------------------------------- C18
\* the first half of C18: the bucket a call compares with the recorded one is
\* the wall-clock bucket of the moment the call takes the lock
C18_BucketAtLock ==
    [][\A s \in Submitters : (mu # s /\ mu' = s) => shour[s] = now]_vars

\* C18 as stated: the wall clock never going back, the recorded bucket never
\* changes from a later bucket to an earlier one.
C18_Original == [][currentHour' >= currentHour]_vars

\* --------------------------------------------------------------------- C19
\* C19 as stated: a WriteLog call whose open of the new bucket's file fails
\* (the call returns from its rotation) leaves the handle unset and its event
\* appended to the buffer, not dropped and not written.
C19_Original ==
    [][\A s \in Submitters :
          (spc[s] = "rotate" /\ spc'[s] = "idle") =>
              /\ currentFile' = Nil
              /\ sev(s) \in Range(logBuffer')
              /\ sev(s) \notin AttemptedIn(attempts')]_vars

\* --------------------------------------------------------------------- C20
\* the line writes of the step
NewWrites == SubSeq(attempts', Len(attempts) + 1, Len(attempts'))

\* the step calls flush: the rotation of a WriteLog call, or flushLoop taking
\* the lock in one of its three cases
CallsFlush ==
    \/ \E s \in Submitters : spc[s] = "rotate" /\ spc'[s] # "rotate"
    \/ lpc = "lock" /\ lpc' # "lock"

\* C20: a flush with a non-empty buffer and a handle writes every buffered line
\* exactly once, in buffer order, to the handle's file; the lines whose write
\* succeeds are added to the file in that order, those after a failed line
\* included; the flush then leaves the buffer empty whatever the outcomes; and
\* no line, failed or not, is ever written a second time.
C20_FlushBestEffort ==
    [][/\ (CallsFlush /\ logBuffer # <<>> /\ currentFile # Nil) =>
             /\ EvSeq(NewWrites) = logBuffer
             /\ LET h == handles[currentFile].hour
                IN  /\ \A i \in 1..Len(NewWrites) : NewWrites[i].file = h
                    /\ files'[h] = files[h] \o
                           EvSeq(SelectSeq(NewWrites, LAMBDA w : w.ok))
             /\ logBuffer' = <<>> \/ (lpc' = "truncate" /\ logBuffer' = logBuffer)
       /\ attempts' # attempts =>
             (CallsFlush /\ logBuffer # <<>> /\ currentFile # Nil)
       /\ (lpc = "truncate" /\ lpc' # "truncate") => logBuffer' = <<>>
       /\ \A i, j \in 1..Len(attempts') :
             attempts'[i].ev = attempts'[j].ev => i = j]_vars

\* the background task's flush has written a buffer of two lines: the write of
\* the first failed, the second is in the file
C20_Witness ==
    /\ lpc = "truncate" /\ Len(logBuffer) = 2 /\ Len(attempts) >= 2
    /\ attempts[Len(attempts) - 1].ev = logBuffer[1]
    /\ ~attempts[Len(attempts) - 1].ok
    /\ attempts[Len(attempts)].ev = logBuffer[2]
    /\ attempts[Len(attempts)].ok
    /\ logBuffer[2] \in Range(FileOf(currentHour))
    /\ logBuffer[1] \notin Range(FileOf(currentHour))

\* --------------------------------------------------------------------- C21
\* C21: a flush invoked with an empty buffer or with no handle set returns at
\* once and changes nothing: the buffer keeps its lines in order, no line is
\* written and no file changes; in flushLoop, whose step is the flush alone,
\* the handle, the handles and the recorded bucket are unchanged too (in a
\* WriteLog call the close and the open that follow the flush are the
\* rotation's, and only they change the handle).
C21_FlushNoOp ==
    [][(CallsFlush /\ (Len(logBuffer) = 0 \/ currentFile = Nil)) =>
          /\ logBuffer' = logBuffer
          /\ attempts' = attempts
          /\ \A h \in DOMAIN files : h \in DOMAIN files' /\ files'[h] = files[h]
          /\ lpc' # "truncate"
          /\ lpc' # lpc => UNCHANGED <<currentFile, currentHour, handles, files>>]_vars

\* the shutdown flush was invoked with lines in the buffer and no handle set,
\* and has left the lines where they were
C21_Witness ==
    /\ lpc = "flushed" /\ mu = LoopId
    /\ logBuffer # <<>> /\ currentFile = Nil
    /\ Range(logBuffer) \cap Attempted = {}

\* --------------------------------------------------------------------- C22
\* the running call of s returns after its event failed to serialize
SerializeFails(s) ==
    /\ spc[s] = "append" /\ spc'[s] = "idle"
    /\ calls'[Len(calls')].ev = sev(s) /\ calls'[Len(calls')].ser = "fail"

\* C22: a WriteLog call whose event fails to serialize leaves the buffer as it
\* was and sends no threshold signal; the rotation it made before serializing
\* stays in effect (the recorded bucket and the open handle are those of the
\* call's bucket, the file exists); no file or written line changes; and the
\* dropped event is never in the buffer, in a write or in a file, whatever was
\* submitted before or is submitted after.
C22_SerializeFailure ==
    [][/\ \A s \in Submitters :
            SerializeFails(s) =>
                /\ logBuffer' = logBuffer
                /\ flushChan' = flushChan
                /\ UNCHANGED <<currentHour, currentFile, handles, files, attempts>>
                /\ needRotate(pre.hour, shour[s]) =>
                      /\ currentHour' = shour[s]
                      /\ currentFile' # Nil
                      /\ handles'[currentFile'].open
                      /\ handles'[currentFile'].hour = shour[s]
                      /\ shour[s] \in DOMAIN files'
       /\ \A i \in 1..Len(calls') :
            calls'[i].ser = "fail" =>
                /\ calls'[i].ev \notin Range(logBuffer')
                /\ calls'[i].ev \notin AttemptedIn(attempts')
                /\ LinesIn(files', calls'[i].ev) = 0]_vars

\* a call whose event failed to serialize has returned, its rotation in effect,
\* and a later event has been appended after an earlier one
C22_Witness ==
    /\ Len(calls) = 3
    /\ calls[1].ser = "ok" /\ calls[2].ser = "fail" /\ calls[3].ser = "ok"
    /\ calls[2].hour # calls[1].hour
    /\ currentHour = calls[2].hour
    /\ logBuffer = <<calls[3].ev>>
    /\ FileOf(calls[1].hour) = <<calls[1].ev>>

\* --------------------------------------------------------------------- C23
\* C23: under fair scheduling, once Close has been called the background task
\* takes the shutdown branch and terminates, however often the timer ticks,
\* threshold signals arrive and submitters take the lock; it terminates by the
\* shutdown branch only (after the signal was received and the final flush
\* done); and once terminated it takes no further step, so it flushes no more.
C23_LoopTerminates ==
    /\ (ncloses >= 1) ~> (lpc = "exited")
    /\ [](lpc \in {"return", "exited"} =>
             /\ lbranch = "done"
             /\ Len(shutdownLog) >= 3
             /\ shutdownLog[1] = "received" /\ shutdownLog[2] = "flushed")
    /\ [][lpc = "exited" => (lpc' = "exited" /\ lbranch' = lbranch)]_vars
    /\ [][(lpc' = "return" /\ lpc # "return") => (lpc = "flushed" /\ lbranch = "done")]_vars

\* the background task has terminated while a threshold signal was still
\* pending and a submitter was waiting for the lock
C23_Witness ==
    /\ lpc = "exited"
    /\ flushChan = FlushChanCap
    /\ \E s \in Submitters : spc[s] = "lock"

\* --------------------------------------------------------------------- C24
\* The writer while its timer keeps ticking, under fair scheduling: as
\* Fairness, and the tick case of the select is taken when flushLoop waits in
\* the select with nothing else to do.
SpecTick == Init /\ [][Next]_vars /\ Fairness /\ WF_vars(FL_RecvTick)

\* event e is in the buffer while a handle is open and the background task has
\* not shut down
Buffered(e) ==
    /\ e \in Range(logBuffer)
    /\ currentFile # Nil /\ handles[currentFile].open
    /\ lpc \notin {"return", "exited"}

\* C24: while the timer keeps ticking and the background task is scheduled
\* fairly, every event in the buffer while a handle is open and before shutdown
\* is eventually handed to a file write, even when the buffer never reaches the
\* threshold and no further WriteLog or Close call is made.
C24_TimerFlush ==
    \A e \in Events : Buffered(e) ~> (e \in Attempted)

\* the flush of a timer tick has written a buffer that is below the threshold
C24_Witness ==
    /\ lpc = "truncate" /\ lbranch = "tick"
    /\ Len(logBuffer) = 1 /\ Len(logBuffer) < flushThreshold
    /\ logBuffer[1] \in Attempted

\* --------------------------------------------------------------------- C25
\* a submitter between its rotation check and its append; flushLoop inside the
\* flush (and close) of one of its three cases
InCall(s) == spc[s] \in {"rotate", "append"}
InFlush == lpc \in {"truncate", "flushed"}

\* what im.mu protects, and the file I/O done under it
shared == <<logBuffer, currentHour, currentFile, handles, files, attempts>>

\* C25: at most one of a submitter's critical section, a timer flush, a
\* threshold flush and the shutdown flush and close is in progress, and the one
\* in progress holds the lock; the buffer, the recorded bucket and the handle
\* change only in a step of the lock holder.
C25_MutualExclusion ==
    /\ [](/\ \A s \in Submitters : InCall(s) => mu = s
          /\ InFlush => (mu = LoopId /\ lbranch \in {"tick", "signal", "done"})
          /\ Cardinality({s \in Submitters : InCall(s)})
                 + (IF InFlush THEN 1 ELSE 0) <= 1)
    /\ [][shared' # shared =>
             \/ mu \in Submitters /\ spc'[mu] # spc[mu]
             \/ mu = LoopId /\ lpc' # lpc
             \/ mu = Free /\ mu' = LoopId /\ lpc' # lpc]_vars

\* one submitter is inside its critical section while the other submitter and
\* a timer flush wait for the lock
C25_Witness ==
    /\ \E s, t \in Submitters : InCall(s) /\ Len(logBuffer) > 0 /\ spc[t] = "lock"
    /\ lpc = "lock" /\ lbranch = "tick"

\* --------------------------------------------------------------------- C26
\* the background task has not received the shutdown signal
BeforeShutdown == lbranch # "done" /\ lpc \notin {"return", "exited"}

\* C26 as stated: before shutdown, whenever the lock is free, a handle is open
\* and the buffer has at least threshold lines, a flush request is outstanding:
\* a signal is pending in the channel, or the background task has taken one and
\* has not yet flushed for it.
C26_Original ==
    (/\ BeforeShutdown
     /\ mu = Free
     /\ currentFile # Nil /\ handles[currentFile].open
     /\ Len(logBuffer) >= ctor.thr) =>
        \/ flushChan > 0
        \/ lpc = "lock" /\ lbranch = "signal"

\* --------------------------------------------------------------------- C27
\* C27 as stated: before Close is called (the wall clock never goes back),
\* whenever no output handle is set the buffer is empty.
C27_Original ==
    (ncloses = 0 /\ currentFile = Nil) => logBuffer = <<>>

\* --------------------------------------------------------------------- C28
\* the running call of s returns because its open failed
OpenFails(s) == spc[s] = "rotate" /\ spc'[s] = "idle"

\* C28: a failed open leaves the recorded bucket as it was, different from the
\* call's bucket, so that a call computing the same bucket again takes the
\* rotation path and opens again; and whenever the recorded bucket is a bucket
\* B, the last successful open was the open of B's file.
C28_BucketOnOpenFailure ==
    /\ [][\A s \in Submitters :
             OpenFails(s) =>
                 /\ currentHour' = currentHour
                 /\ currentFile' = Nil
                 /\ currentHour' # shour[s]
                 /\ pre.file # Nil => ~handles'[pre.file].open]_vars
    /\ [](currentHour \in Hours =>
             /\ Len(handles) > 0
             /\ handles[Len(handles)].hour = currentHour)
    /\ [][\A s \in Submitters :
             (spc[s] = "lock" /\ spc'[s] = "append") => shour[s] = currentHour]_vars

\* after a failed open of hour 2's file the recorded bucket is still hour 1,
\* and the next call in hour 2 has taken the rotation path again
C28_Witness ==
    /\ Len(calls) >= 3
    /\ calls[Len(calls) - 1].hour = 2 /\ calls[Len(calls) - 1].ser = "none"
    /\ calls[Len(calls)].hour = 2
    /\ currentHour = 1 /\ currentFile = Nil
    /\ \E s \in Submitters : spc[s] = "rotate" /\ shour[s] = 2
====
